---- MODULE Spec2Model ----
(***************************************************************************)
(* A model of the novel scraper: the dispatcher (scrape_novel.js), the     *)
(* ncode adapter (scrape_novel_ncode.js) and the kakuyomu adapter          *)
(* (unnamed/part_000, run as scrape_novel_kakuyomu.js).                    *)
(*                                                                         *)
(* Text is a sequence of tokens.  A token is a literal piece of text that  *)
(* the patterns of the program never split: a complete tag, a tag          *)
(* fragment, an entity fragment, a word, or a single character.  Every     *)
(* string function below does on tokens what the JavaScript does on        *)
(* characters.  Positions are 1-based; 0 stands for JavaScript's -1.       *)
(***************************************************************************)
EXTENDS Integers, Sequences, FiniteSets

(***************************************************************************)
(* Tokens of HTML text.                                                    *)
(***************************************************************************)
MarkerTag == "<div class=\"js-novel-text p-novel__text\">"
DivTag == "<div>"
EndDivTag == "</div>"
EpisodeBodyTag == "<div class=\"widget-episodeBody\">"
WorkEpisodeTag == "<div class=\"widget-workEpisode\">"
ParagraphTag == "<p class=\"widget-episodeBody-paragraph\">"
EndParagraphTag == "</p>"
BrTag == "<br>"
TitleTag == "<title>"
EndTitleTag == "</title>"
WorkTitleTag == "<h1 class=\"widget-workTitle\">"
EndWorkTitleTag == "</h1>"
HrefOpen == "<a href=\""
HrefClose == "\">"
Newline == "\n"
Space == " "

\* Tokens whose text begins with "<div".
DivOpenTags == {MarkerTag, DivTag, EpisodeBodyTag, WorkEpisodeTag}

\* Complete tags: the text begins with "<" and ends with ">".
FullTags ==
    DivOpenTags \cup {EndDivTag, ParagraphTag, EndParagraphTag, BrTag, TitleTag,
                      EndTitleTag, WorkTitleTag, EndWorkTitleTag}

\* Tokens that hold a "<" (at their start) and tokens that hold a ">" (at
\* their end).
LtTokens == FullTags \cup {HrefOpen, "<"}
GtTokens == FullTags \cup {HrefClose, ">"}

(***************************************************************************)
(* String functions of the JavaScript runtime, on token sequences.         *)
(***************************************************************************)
Min(a, b) == IF a < b THEN a ELSE b

\* The first position >= from whose token is in set, or 0 (String.indexOf).
IndexOfIn(s, set, from) ==
    LET hits == {i \in 1..Len(s) : i >= from /\ s[i] \in set}
    IN  IF hits = {} THEN 0 ELSE CHOOSE i \in hits : \A j \in hits : i <= j

\* s.substring(from - 1), 1-based: the text from position from on.
Substring(s, from) == SubSeq(s, from, Len(s))

\* Whether pat occurs in s at position i.
MatchesAt(s, pat, i) ==
    /\ i >= 1
    /\ i + Len(pat) - 1 <= Len(s)
    /\ SubSeq(s, i, i + Len(pat) - 1) = pat

\* s.replace(/pat/g, rep): every occurrence, left to right, not overlapping.
RECURSIVE ReplaceAllFrom(_, _, _, _)
ReplaceAllFrom(s, pat, rep, i) ==
    IF i > Len(s) THEN <<>>
    ELSE IF MatchesAt(s, pat, i)
         THEN rep \o ReplaceAllFrom(s, pat, rep, i + Len(pat))
         ELSE <<s[i]>> \o ReplaceAllFrom(s, pat, rep, i + 1)

ReplaceAll(s, pat, rep) == ReplaceAllFrom(s, pat, rep, 1)

\* s.replace('pat', rep) with a string pattern: the first occurrence only.
ReplaceFirst(s, pat, rep) ==
    LET hits == {i \in 1..Len(s) : MatchesAt(s, pat, i)}
    IN  IF hits = {} THEN s
        ELSE LET i == CHOOSE k \in hits : \A j \in hits : k <= j
             IN  SubSeq(s, 1, i - 1) \o rep \o SubSeq(s, i + Len(pat), Len(s))

\* s.trim(): leading and trailing white space removed.
WhiteSpace == {Space, Newline}

RECURSIVE TrimLeft(_)
TrimLeft(s) ==
    IF s # <<>> /\ Head(s) \in WhiteSpace THEN TrimLeft(Substring(s, 2)) ELSE s

RECURSIVE TrimRight(_)
TrimRight(s) ==
    IF s # <<>> /\ s[Len(s)] \in WhiteSpace
    THEN TrimRight(SubSeq(s, 1, Len(s) - 1))
    ELSE s

Trim(s) == TrimRight(TrimLeft(s))

\* s.split('\n'): the sequence of lines.
RECURSIVE SplitLines(_)
SplitLines(s) ==
    LET n == IndexOfIn(s, {Newline}, 1)
    IN  IF n = 0 THEN <<s>>
        ELSE <<SubSeq(s, 1, n - 1)>> \o SplitLines(Substring(s, n + 1))

\* lines.join(sep)
RECURSIVE Join(_, _)
Join(lines, sep) ==
    IF lines = <<>> THEN <<>>
    ELSE IF Len(lines) = 1 THEN lines[1]
    ELSE lines[1] \o sep \o Join(Substring(lines, 2), sep)

\* lines.filter(line => line.length > 0) after lines.map(line => line.trim())
RECURSIVE TrimmedNonEmpty(_)
TrimmedNonEmpty(lines) ==
    IF lines = <<>> THEN <<>>
    ELSE LET l == Trim(lines[1])
         IN  (IF l = <<>> THEN <<>> ELSE <<l>>) \o TrimmedNonEmpty(Substring(lines, 2))

\* content.split('\n').map(trim).filter(non-empty).join('\n')
CleanLines(content) == Join(TrimmedNonEmpty(SplitLines(content)), <<Newline>>)

(***************************************************************************)
(* decodeHtmlEntities and stripHtmlTags (the same in both adapters).       *)
(* An entity is the token "&" followed by the token of its name.           *)
(***************************************************************************)
decodeHtmlEntities(text) ==
    LET a == ReplaceAll(text, <<"&", "nbsp;">>, <<Space>>)
        b == ReplaceAll(a, <<"&", "amp;">>, <<"&">>)
        c == ReplaceAll(b, <<"&", "lt;">>, <<"<">>)
        d == ReplaceAll(c, <<"&", "gt;">>, <<">">>)
        e == ReplaceAll(d, <<"&", "quot;">>, <<"\"">>)
    IN  ReplaceAll(e, <<"&", "#39;">>, <<"'">>)

\* text.replace(/<[^>]*>/g, ''): from a "<" to the next ">", left to right.
RECURSIVE stripHtmlTags(_)
stripHtmlTags(text) ==
    IF text = <<>> THEN <<>>
    ELSE IF text[1] \in LtTokens
         THEN LET close == IndexOfIn(text, GtTokens, 1)
              IN  IF close = 0
                  THEN <<text[1]>> \o stripHtmlTags(Substring(text, 2))
                  ELSE stripHtmlTags(Substring(text, close + 1))
         ELSE <<text[1]>> \o stripHtmlTags(Substring(text, 2))

\* content.replace(/<br[^>]*>/g, '\n')
BrToNewline(content) == ReplaceAll(content, <<BrTag>>, <<Newline>>)

\* The common tail of both extractNovelContent functions.
CleanContent(content) ==
    CleanLines(decodeHtmlEntities(stripHtmlTags(BrToNewline(content))))

(***************************************************************************)
(* extractNovelContent of the ncode adapter.                               *)
(***************************************************************************)
\* The while loop of the scan.  currentIndex is the position of the token
\* at which JavaScript's currentIndex points; indexOf('<div', currentIndex
\* + 1) starts inside that token and so finds a later one, indexOf('</div>',
\* currentIndex) starts at it.  The value is endIndex at the loop's exit.
RECURSIVE ScanLoop(_, _, _, _)
ScanLoop(content, divCount, currentIndex, endIndex) ==
    IF ~(divCount > 0 /\ currentIndex # 0) THEN endIndex
    ELSE LET nextDiv == IndexOfIn(content, DivOpenTags, currentIndex + 1)
             nextEndDiv == IndexOfIn(content, {EndDivTag}, currentIndex)
         IN  IF nextEndDiv = 0 THEN endIndex
             ELSE IF nextDiv # 0 /\ nextDiv < nextEndDiv
                  THEN ScanLoop(content, divCount + 1, nextDiv, endIndex)
                  ELSE ScanLoop(content, divCount - 1, nextEndDiv,
                                IF divCount - 1 = 0 THEN nextEndDiv ELSE endIndex)

\* The boundary selection: the text from the marker to endIndex, or to the
\* end of the document when the loop set no endIndex.
NcodeSelect(html) ==
    LET startMatch == IndexOfIn(html, {MarkerTag}, 1)
        content == Substring(html, startMatch)
        endIndex == ScanLoop(content, 1, IndexOfIn(content, DivOpenTags, 2), 0)
    IN  IF endIndex # 0 THEN SubSeq(content, 1, endIndex - 1) ELSE content

extractNovelContentNcode(html) ==
    IF IndexOfIn(html, {MarkerTag}, 1) = 0 THEN <<>>
    ELSE CleanContent(NcodeSelect(html))

(***************************************************************************)
(* extractNovelContent of the kakuyomu adapter.                            *)
(***************************************************************************)
\* html.match(/<open>([\s\S]*?)<close>/) for an opening tag of the set
\* open: the leftmost opening tag that has a closing tag after it, and the
\* first closing tag after it.  <<0, 0>> when there is no match.
LazyMatch(html, open, close, from) ==
    LET starts == {i \in 1..Len(html) :
                      /\ i >= from
                      /\ html[i] \in open
                      /\ IndexOfIn(html, {close}, i + 1) # 0}
    IN  IF starts = {} THEN <<0, 0>>
        ELSE LET i == CHOOSE k \in starts : \A j \in starts : k <= j
             IN  <<i, IndexOfIn(html, {close}, i + 1)>>

\* html.match(/<p ...>([\s\S]*?)<\/p>/g): the whole text of every match,
\* left to right, not overlapping.
RECURSIVE MatchAllParagraphs(_, _)
MatchAllParagraphs(html, from) ==
    LET m == LazyMatch(html, {ParagraphTag}, EndParagraphTag, from)
    IN  IF m[1] = 0 THEN <<>>
        ELSE <<SubSeq(html, m[1], m[2])>> \o MatchAllParagraphs(html, m[2] + 1)

\* A faulty variant of extractNovelContentKakuyomu: the work-episode
\* pattern is tried before the episode-body pattern.
extractNovelContentKakuyomuWorkFirst(html) ==
    LET episodeBodyMatch == LazyMatch(html, {EpisodeBodyTag}, EndDivTag, 1)
        workBodyMatch == LazyMatch(html, {WorkEpisodeTag}, EndDivTag, 1)
        generalMatch == MatchAllParagraphs(html, 1)
    IN  IF workBodyMatch[1] # 0
        THEN CleanContent(SubSeq(html, workBodyMatch[1] + 1,
                                 workBodyMatch[2] - 1))
        ELSE IF episodeBodyMatch[1] # 0
             THEN CleanContent(SubSeq(html, episodeBodyMatch[1] + 1,
                                      episodeBodyMatch[2] - 1))
             ELSE IF generalMatch # <<>>
                  THEN CleanContent(Join(generalMatch, <<Newline>>))
                  ELSE <<>>

extractNovelContentKakuyomu(html) ==
    LET episodeBodyMatch == LazyMatch(html, {EpisodeBodyTag}, EndDivTag, 1)
        workBodyMatch == LazyMatch(html, {WorkEpisodeTag}, EndDivTag, 1)
        generalMatch == MatchAllParagraphs(html, 1)
    IN  IF episodeBodyMatch[1] # 0
        THEN CleanContent(SubSeq(html, episodeBodyMatch[1] + 1,
                                 episodeBodyMatch[2] - 1))
        ELSE IF workBodyMatch[1] # 0
             THEN CleanContent(SubSeq(html, workBodyMatch[1] + 1,
                                      workBodyMatch[2] - 1))
             ELSE IF generalMatch # <<>>
                  THEN CleanContent(Join(generalMatch, <<Newline>>))
                  ELSE <<>>

(***************************************************************************)
(* extractTitle.                                                           *)
(***************************************************************************)
\* html.match(/<open>([^<]*)<close>/): the leftmost opening tag followed,
\* with no "<" in between, by the closing tag.  <<0, 0>> when none.
TagTextMatch(html, open, close) ==
    LET starts == {i \in 1..Len(html) :
                      /\ html[i] = open
                      /\ LET j == IndexOfIn(html, LtTokens, i + 1)
                         IN  j # 0 /\ html[j] = close}
    IN  IF starts = {} THEN <<0, 0>>
        ELSE LET i == CHOOSE k \in starts : \A j \in starts : k <= j
             IN  <<i, IndexOfIn(html, LtTokens, i + 1)>>

\* ' - カクヨム' and ' - 小説家になろう', the site names romanised, and
\* '不明なタイトル' in English.
KakuyomuSuffix == <<Space, "-", Space, "Kakuyomu">>
NcodeSuffix == <<Space, "-", Space, "Shousetsuka ni Narou">>
UnknownTitle == <<"unknown title">>

extractTitleNcode(html) ==
    LET titleMatch == TagTextMatch(html, TitleTag, EndTitleTag)
    IN  IF titleMatch[1] # 0
        THEN ReplaceFirst(SubSeq(html, titleMatch[1] + 1, titleMatch[2] - 1),
                          NcodeSuffix, <<>>)
        ELSE UnknownTitle

extractTitleKakuyomu(html) ==
    LET titleMatch == TagTextMatch(html, TitleTag, EndTitleTag)
        workTitleMatch == TagTextMatch(html, WorkTitleTag, EndWorkTitleTag)
    IN  IF titleMatch[1] # 0
        THEN Trim(ReplaceFirst(SubSeq(html, titleMatch[1] + 1, titleMatch[2] - 1),
                               KakuyomuSuffix, <<>>))
        ELSE IF workTitleMatch[1] # 0
             THEN Trim(SubSeq(html, workTitleMatch[1] + 1, workTitleMatch[2] - 1))
             ELSE UnknownTitle

(***************************************************************************)
(* extractChapterLinks.  A link is a string: a sequence of the tokens      *)
(* below.  Array.prototype.sort() without a comparator orders strings by   *)
(* their UTF-16 code units, which CodeUnits spells out.                    *)
(***************************************************************************)
Https == "https://"
Http == "http://"
KakuyomuHost == "kakuyomu.jp"
NcodeHost == "ncode.syosetu.com"
WorksPath == "/works/"
EpisodesPath == "/episodes/"
NcodeWorkPath == "/n9734kw/"
Digits == {"0", "1", "2", "9"}

CodeUnits(t) ==
    CASE t = "https://" -> <<104, 116, 116, 112, 115, 58, 47, 47>>
      [] t = "http://" -> <<104, 116, 116, 112, 58, 47, 47>>
      [] t = "kakuyomu.jp" -> <<107, 97, 107, 117, 121, 111, 109, 117, 46, 106, 112>>
      [] t = "ncode.syosetu.com" -> <<110, 99, 111, 100, 101, 46, 115, 121, 111, 115, 101, 116, 117, 46, 99, 111, 109>>
      [] t = "/works/" -> <<47, 119, 111, 114, 107, 115, 47>>
      [] t = "/episodes/" -> <<47, 101, 112, 105, 115, 111, 100, 101, 115, 47>>
      [] t = "/n9734kw/" -> <<47, 110, 57, 55, 51, 52, 107, 119, 47>>
      [] t = "example.com" -> <<101, 120, 97, 109, 112, 108, 101, 46, 99, 111, 109>>
      [] t = ".example.com" -> <<46, 101, 120, 97, 109, 112, 108, 101, 46, 99, 111, 109>>
      [] t = "/" -> <<47>>
      [] t = "0" -> <<48>>
      [] t = "1" -> <<49>>
      [] t = "2" -> <<50>>
      [] t = "9" -> <<57>>
      [] t = "<a href=" -> <<60, 97, 32, 104, 114, 101, 102, 61>>
      [] t = "<div class=" -> <<60, 100, 105, 118, 32, 99, 108, 97, 115, 115, 61>>
      [] t = "<p class=" -> <<60, 112, 32, 99, 108, 97, 115, 115, 61>>
      [] t = "<h1 class=" -> <<60, 104, 49, 32, 99, 108, 97, 115, 115, 61>>

RECURSIVE Flatten(_)
Flatten(str) ==
    IF str = <<>> THEN <<>> ELSE CodeUnits(str[1]) \o Flatten(Substring(str, 2))

\* a < b for two sequences of code units.
RECURSIVE UnitsLess(_, _)
UnitsLess(a, b) ==
    IF b = <<>> THEN FALSE
    ELSE IF a = <<>> THEN TRUE
    ELSE IF a[1] # b[1] THEN a[1] < b[1]
    ELSE UnitsLess(Substring(a, 2), Substring(b, 2))

StringLess(a, b) == UnitsLess(Flatten(a), Flatten(b))

\* links.sort(): insertion of each element into an ordered sequence.
RECURSIVE InsertSorted(_, _)
InsertSorted(sorted, x) ==
    IF sorted = <<>> THEN <<x>>
    ELSE IF StringLess(x, sorted[1]) THEN <<x>> \o sorted
    ELSE <<sorted[1]>> \o InsertSorted(Substring(sorted, 2), x)

\* A faulty variant of Sort: the links stay in the order of the page.
SortOmitted(links) == links

RECURSIVE Sort(_)
Sort(links) ==
    IF links = <<>> THEN <<>>
    ELSE InsertSorted(Sort(SubSeq(links, 1, Len(links) - 1)), links[Len(links)])

\* links.includes(link)
Includes(links, link) == \E i \in 1..Len(links) : links[i] = link

\* if (!links.includes(link)) links.push(link), for every match in turn.
RECURSIVE PushNew(_, _)
PushNew(links, found) ==
    IF found = <<>> THEN links
    ELSE PushNew(IF Includes(links, found[1]) THEN links
                 ELSE Append(links, found[1]),
                 Substring(found, 2))

\* Tokens that begin with a double quote, and the text a token holds
\* before its first double quote (<<>> when it begins with the quote).
QuoteStart == {HrefClose, "\""}
BeforeQuote(t) ==
    CASE t \in {MarkerTag, EpisodeBodyTag, WorkEpisodeTag} -> <<"<div class=">>
      [] t = ParagraphTag -> <<"<p class=">>
      [] t = WorkTitleTag -> <<"<h1 class=">>
      [] t = HrefOpen -> <<"<a href=">>
      [] OTHER -> <<>>

QuoteTokens == {MarkerTag, EpisodeBodyTag, WorkEpisodeTag, ParagraphTag,
                WorkTitleTag, HrefOpen, HrefClose, "\""}

\* /\/works\/\d+\/episodes\/\d+/ on the whole of c.
IsEpisodePath(c) ==
    \E k \in 3..(Len(c) - 1) :
        /\ c[1] = WorksPath
        /\ c[k] = EpisodesPath
        /\ \A i \in 2..Len(c) : i # k => c[i] \in Digits

\* The captures of /href="(\/works\/\d+\/episodes\/\d+)"/g, in order.
RECURSIVE KakuyomuMatches(_, _)
KakuyomuMatches(html, from) ==
    LET i == IndexOfIn(html, {HrefOpen}, from)
        j == IndexOfIn(html, QuoteTokens, i + 1)
    IN  IF i = 0 THEN <<>>
        ELSE IF j # 0 /\ html[j] \in QuoteStart
                /\ IsEpisodePath(SubSeq(html, i + 1, j - 1))
             THEN <<SubSeq(html, i + 1, j - 1)>> \o KakuyomuMatches(html, j + 1)
             ELSE KakuyomuMatches(html, i + 1)

RECURSIVE ResolveKakuyomu(_)
ResolveKakuyomu(found) ==
    IF found = <<>> THEN <<>>
    ELSE <<(<<Https, KakuyomuHost>> \o found[1])>>
         \o ResolveKakuyomu(Substring(found, 2))

extractChapterLinksKakuyomu(html) ==
    Sort(PushNew(<<>>, ResolveKakuyomu(KakuyomuMatches(html, 1))))

\* /[^"]*n9734kw\/\d+[^"]*/ on the whole of c, which holds no quote.
IsNcodePath(c) ==
    \E k \in 1..(Len(c) - 1) : c[k] = NcodeWorkPath /\ c[k + 1] \in Digits

\* The captures of /href="([^"]*n9734kw\/\d+[^"]*)"/g, in order.  The
\* capture runs to the next double quote, wherever it is.
RECURSIVE NcodeMatches(_, _)
NcodeMatches(html, from) ==
    LET i == IndexOfIn(html, {HrefOpen}, from)
        j == IndexOfIn(html, QuoteTokens, i + 1)
        capture == SubSeq(html, i + 1, j - 1) \o BeforeQuote(html[j])
    IN  IF i = 0 THEN <<>>
        ELSE IF j # 0 /\ IsNcodePath(capture)
             THEN <<capture>> \o NcodeMatches(html, j + 1)
             ELSE NcodeMatches(html, i + 1)

\* match[1].startsWith('http') ? match[1] : `https://ncode.syosetu.com${match[1]}`
RECURSIVE ResolveNcode(_)
ResolveNcode(found) ==
    IF found = <<>> THEN <<>>
    ELSE <<(IF found[1][1] \in {Https, Http} THEN found[1]
            ELSE <<Https, NcodeHost>> \o found[1])>>
         \o ResolveNcode(Substring(found, 2))

extractChapterLinksNcode(html) ==
    Sort(PushNew(<<>>, ResolveNcode(NcodeMatches(html, 1))))

(***************************************************************************)
(* Command lines, URLs and the pages the sites may serve.                  *)
(***************************************************************************)
\* The most chapter links a listing page of the model holds.
MaxLinks == 5

\* The URL arguments tried: the two supported sites, a non-secure scheme, a
\* foreign host, a host in upper case, a host that names a member of
\* Object.prototype, and text that is no URL.
UrlInputs ==
    {<<Https, KakuyomuHost, WorksPath, "1">>,
     <<Https, NcodeHost, NcodeWorkPath>>,
     <<Http, KakuyomuHost, WorksPath, "1">>,
     <<Https, "example.com", WorksPath, "1">>,
     <<Https, "KAKUYOMU.JP", WorksPath, "1">>,
     <<Https, "constructor", "/">>,
     <<"not a url">>}

HelpFlag == <<"--help">>

\* process.argv.slice(2): no argument, the help flag, a URL, a URL and the
\* help flag.  An argument is a string, that is a sequence of tokens.
ArgvInputs ==
    {<<>>, <<HelpFlag>>}
    \cup {<<u>> : u \in UrlInputs}
    \cup {<<u, HelpFlag>> : u \in {<<Http, KakuyomuHost, WorksPath, "1">>}}

\* new URL(urlString): whether it parses, and its protocol, hostname and
\* href.  The parser puts the host in lower case.
UrlParses(u) == Len(u) >= 2 /\ u[1] \in {Https, Http}
UrlProtocol(u) == IF u[1] = Https THEN "https:" ELSE "http:"
ToLowerCase(host) == IF host = "KAKUYOMU.JP" THEN KakuyomuHost ELSE host
UrlHostname(u) == ToLowerCase(u[2])
UrlHref(u) == <<u[1], UrlHostname(u)>> \o Substring(u, 3)

\* ALLOWED_DOMAIN of each adapter.
ALLOWED_DOMAIN(a) == IF a = "ncode" THEN NcodeHost ELSE KakuyomuHost

\* SUPPORTED_SCRAPERS[hostname]: the adapter script, a member inherited
\* from Object.prototype (truthy, and no script), or undefined.
ObjectPrototypeKeys == {"constructor", "toString", "valueOf", "hasOwnProperty"}
SUPPORTED_SCRAPERS(hostname) ==
    CASE hostname = NcodeHost -> "ncode"
      [] hostname = KakuyomuHost -> "kakuyomu"
      [] hostname \in ObjectPrototypeKeys -> "inherited"
      [] OTHER -> "undefined"

\* The episode numbers a listing page links to, in the order of the page.
EpisodeNumbers ==
    <<(<<"9">>), <<"1", "0">>, <<"2">>, <<"1">>, <<"1", "2">>, <<"1", "1">>,
      <<"1", "9">>>>

KakuyomuAnchor(n) ==
    <<HrefOpen, WorksPath, "1", EpisodesPath>> \o EpisodeNumbers[n] \o <<HrefClose>>
NcodeAnchor(n) ==
    <<HrefOpen, NcodeWorkPath>> \o EpisodeNumbers[n] \o <<"/", HrefClose>>

RECURSIVE Anchors(_, _)
Anchors(a, n) ==
    IF n = 0 THEN <<>>
    ELSE Anchors(a, n - 1) \o (IF a = "ncode" THEN NcodeAnchor(n) ELSE KakuyomuAnchor(n))

\* Bodies a page may hold.
NcodeBodies ==
    {<<>>,
     <<MarkerTag, "inner", EndDivTag>>,
     <<MarkerTag, DivTag, "inner", EndDivTag, "more", EndDivTag>>,
     <<MarkerTag, Space, BrTag, EndDivTag>>}
KakuyomuElements ==
    {<<EpisodeBodyTag, "inner", BrTag, "more", EndDivTag>>,
     <<WorkEpisodeTag, "work", EndDivTag>>,
     <<ParagraphTag, "one", EndParagraphTag>>,
     <<ParagraphTag, "two", EndParagraphTag, "between">>,
     <<EpisodeBodyTag, Space>>}
KakuyomuBodies ==
    {<<>>}
    \cup KakuyomuElements
    \cup {x \o y : x \in KakuyomuElements, y \in KakuyomuElements}
    \cup {x \o y \o z : x \in KakuyomuElements, y \in KakuyomuElements,
                        z \in KakuyomuElements}
Bodies(a) == IF a = "ncode" THEN NcodeBodies ELSE KakuyomuBodies

TitlePart == <<TitleTag, "Work", EndTitleTag>>

\* The pages the listing URL may serve: a title, a body or none, and up
\* to MaxLinks chapter links, the first of them twice.
ListingBodies(a) ==
    IF a = "ncode" THEN {<<>>, <<MarkerTag, "inner", EndDivTag>>}
    ELSE {<<>>, <<EpisodeBodyTag, "inner", EndDivTag>>}
\* Anchors a listing page may also hold: a chapter path on another host,
\* given as an absolute URL, and one that begins with text that is no
\* path.
ForeignAnchors(a) ==
    IF a = "ncode"
    THEN <<HrefOpen, Https, "example.com", NcodeWorkPath, "1", "/", HrefClose,
           HrefOpen, ".example.com", NcodeWorkPath, "2", "/", HrefClose>>
    ELSE <<HrefOpen, Https, "example.com", WorksPath, "1", EpisodesPath, "1", HrefClose,
           HrefOpen, ".example.com", WorksPath, "1", EpisodesPath, "2", HrefClose>>
ListingPages(a) ==
    {TitlePart \o b \o Anchors(a, n) \o Anchors(a, Min(n, 1)) :
        b \in ListingBodies(a), n \in 0..MaxLinks}
    \cup {TitlePart \o ForeignAnchors(a) \o Anchors(a, n) : n \in 0..1}

\* The scheme and the host of the URL string a request is made to, as
\* https.get(url) parses it: the host runs from the scheme to the first
\* slash.
PathTokens == {WorksPath, EpisodesPath, NcodeWorkPath, "/"}
RequestScheme(url) == url[1]
RequestHost(url) ==
    LET slash == IndexOfIn(url, PathTokens, 2)
    IN  IF slash = 0 THEN SubSeq(url, 2, Len(url)) ELSE SubSeq(url, 2, slash - 1)

\* The pages a chapter URL may serve.
ChapterPages(a) == {TitlePart \o b : b \in Bodies(a)}

(***************************************************************************)
(* The state of one run.                                                   *)
(***************************************************************************)
VARIABLES
    script,         \* the script the operator starts: "dispatcher", "ncode", "kakuyomu"
    argv,           \* process.argv.slice(2)
    dpc,            \* where the dispatcher's main() is; "none" when it does not run
    dexit,          \* the dispatcher's exit status, once dpc = "exit"
    adapter,        \* the adapter script that runs: "none", "ncode", "kakuyomu"
    pc,             \* where the adapter's main() is
    exitCode,       \* the adapter's exit status, once pc = "exit"
    dirExists,      \* whether OUTPUT_DIR exists
    mkdirs,         \* the mkdirSync calls that returned
    files,          \* the files whose writeFileSync call returned in this run
    requests,       \* the URLs handed to https.get, in order
    inflight,       \* the requests issued and not yet settled
    html,           \* the listing page
    content,        \* the body extracted from the listing page
    chapterLinks,   \* the sorted chapter links
    i,              \* the loop variable of the download loop
    chapterHtml,    \* the chapter page of this iteration
    chapterContent, \* the body extracted from it
    attempts,       \* history: what became of each chapter attempted so far
    waited,         \* history: the delay slept since the last chapter request settled
    visited,        \* history: the values pc has had, and what main() caught
    fn, arg, out    \* a function applied on its own: its name, input and result

runVars ==
    <<script, argv, dpc, dexit, adapter, pc, exitCode, dirExists, mkdirs, files,
      requests, inflight, html, content, chapterLinks, i, chapterHtml,
      chapterContent, attempts, waited, visited>>
fnVars == <<fn, arg, out>>
vars == <<runVars, fnVars>>

\* The delay between chapters, in milliseconds: sleep(1000).
DelayMs == 1000
\* The kakuyomu adapter downloads the first 3 chapters: Math.min(3, ...).
SampleCap == 3

extractTitle(a, page) ==
    IF a = "ncode" THEN extractTitleNcode(page) ELSE extractTitleKakuyomu(page)
extractNovelContent(a, page) ==
    IF a = "ncode" THEN extractNovelContentNcode(page)
    ELSE extractNovelContentKakuyomu(page)
extractChapterLinks(a, page) ==
    IF a = "ncode" THEN extractChapterLinksNcode(page)
    ELSE extractChapterLinksKakuyomu(page)

\* The bound of the download loop: chapterLinks.length in the ncode
\* adapter, downloadCount = Math.min(3, chapterLinks.length) in kakuyomu.
LoopBound(a, links) ==
    IF a = "ncode" THEN Len(links) ELSE Min(SampleCap, Len(links))

\* chapterNum.toString(): the decimal digits of a positive number.
RECURSIVE ToString(_)
ToString(n) ==
    LET digit == <<"0", "1", "2", "3", "4", "5", "6", "7", "8", "9">>
    IN  IF n < 10 THEN <<digit[n + 1]>>
        ELSE ToString(n \div 10) \o <<digit[(n % 10) + 1]>>

\* str.padStart(len, '0')
RECURSIVE PadStart(_, _)
PadStart(str, len) ==
    IF Len(str) >= len THEN str ELSE PadStart(<<"0">> \o str, len)

\* `chapter_${chapterNum.toString().padStart(3, '0')}.txt`
ChapterFileName(chapterNum) ==
    <<"chapter_">> \o PadStart(ToString(chapterNum), 3) \o <<".txt">>
IndexFile == <<"index.html">>
ContentFile == <<"content.txt">>

\* process.exit(code) in the adapter, and the end of main().
Exit(code) ==
    /\ pc' = "exit"
    /\ exitCode' = code
    /\ visited' = visited \cup {"exit"}

\* The catch of main(): the error is reported and the process exits with
\* status 1.  The history keeps what was caught.
Catch(what) ==
    /\ pc' = "exit"
    /\ exitCode' = 1
    /\ visited' = visited \cup {"exit", what}

Goto(label) ==
    /\ pc' = label
    /\ visited' = visited \cup {label}

Init ==
    /\ script \in {"dispatcher", "ncode", "kakuyomu"}
    /\ argv \in ArgvInputs
    /\ dpc = IF script = "dispatcher" THEN "start" ELSE "none"
    /\ dexit = 0
    /\ adapter = IF script = "dispatcher" THEN "none" ELSE script
    /\ pc = IF script = "dispatcher" THEN "none" ELSE "start"
    /\ exitCode = 0
    /\ dirExists \in BOOLEAN
    /\ mkdirs = 0
    /\ files = {}
    /\ requests = <<>>
    /\ inflight = {}
    /\ html = <<>>
    /\ content = <<>>
    /\ chapterLinks = <<>>
    /\ i = 0
    /\ chapterHtml = <<>>
    /\ chapterContent = <<>>
    /\ attempts = <<>>
    /\ waited = 0
    /\ visited = {pc}
    /\ fn = "none"
    /\ arg = <<>>
    /\ out = <<>>

(***************************************************************************)
(* main() of an adapter, one action per step between two suspension or     *)
(* failure points.  A file-system call may throw; a request may fail.      *)
(***************************************************************************)
Attempt(fetched, body, wrote) ==
    [ordinal |-> i + 1, fetched |-> fetched, body |-> body, wrote |-> wrote]

\* parseArguments()
ParseArguments ==
    /\ pc = "start"
    /\ IF Len(argv) = 0 THEN Exit(1)
       ELSE IF \E k \in 1..Len(argv) : argv[k] \in {<<"--help">>, <<"-h">>}
            THEN Exit(0)
            ELSE /\ Goto("validate")
                 /\ UNCHANGED exitCode
    /\ UNCHANGED <<script, argv, dpc, dexit, adapter, dirExists, mkdirs, files,
                   requests, inflight, html, content, chapterLinks, i,
                   chapterHtml, chapterContent, attempts, waited, fnVars>>

\* A faulty variant of validateUrl: the scheme is not looked at.
validateUrlAnyScheme ==
    /\ pc = "validate"
    /\ IF ~UrlParses(argv[1]) THEN Exit(1)
       ELSE IF UrlHostname(argv[1]) # ALLOWED_DOMAIN(adapter) THEN Exit(1)
       ELSE /\ Goto("mkdir")
            /\ UNCHANGED exitCode
    /\ UNCHANGED <<script, argv, dpc, dexit, adapter, dirExists, mkdirs, files,
                   requests, inflight, html, content, chapterLinks, i,
                   chapterHtml, chapterContent, attempts, waited, fnVars>>

\* validateUrl(urlString)
validateUrl ==
    /\ pc = "validate"
    /\ IF ~UrlParses(argv[1]) THEN Exit(1)
       ELSE IF UrlProtocol(argv[1]) # "https:" THEN Exit(1)
       ELSE IF UrlHostname(argv[1]) # ALLOWED_DOMAIN(adapter) THEN Exit(1)
       ELSE /\ Goto("mkdir")
            /\ UNCHANGED exitCode
    /\ UNCHANGED <<script, argv, dpc, dexit, adapter, dirExists, mkdirs, files,
                   requests, inflight, html, content, chapterLinks, i,
                   chapterHtml, chapterContent, attempts, waited, fnVars>>

\* ensureOutputDir(); mkdirSync may throw, which main() catches.
ensureOutputDir ==
    /\ pc = "mkdir"
    /\ IF dirExists
       THEN /\ Goto("fetchListing")
            /\ UNCHANGED <<exitCode, dirExists, mkdirs>>
       ELSE \E made \in BOOLEAN :
                IF made
                THEN /\ dirExists' = TRUE
                     /\ mkdirs' = mkdirs + 1
                     /\ Goto("fetchListing")
                     /\ UNCHANGED exitCode
                ELSE /\ Catch("mkdir threw")
                     /\ UNCHANGED <<dirExists, mkdirs>>
    /\ UNCHANGED <<script, argv, dpc, dexit, adapter, files, requests, inflight,
                   html, content, chapterLinks, i, chapterHtml, chapterContent,
                   attempts, waited, fnVars>>

\* fetchUrl(novelUrl.href) is called: the request goes out.
FetchListing ==
    /\ pc = "fetchListing"
    /\ requests' = Append(requests, UrlHref(argv[1]))
    /\ inflight' = inflight \cup {UrlHref(argv[1])}
    /\ Goto("awaitListing")
    /\ UNCHANGED <<script, argv, dpc, dexit, adapter, exitCode, dirExists, mkdirs,
                   files, html, content, chapterLinks, i, chapterHtml,
                   chapterContent, attempts, waited, fnVars>>

\* The listing request resolves with a page.
ListingResponse ==
    /\ pc = "awaitListing"
    /\ \E page \in ListingPages(adapter) : html' = page
    /\ inflight' = {}
    /\ Goto("writeIndex")
    /\ UNCHANGED <<script, argv, dpc, dexit, adapter, exitCode, dirExists, mkdirs,
                   files, requests, content, chapterLinks, i, chapterHtml,
                   chapterContent, attempts, waited, fnVars>>

\* The listing request rejects: main()'s catch ends the process.
ListingError ==
    /\ pc = "awaitListing"
    /\ inflight' = {}
    /\ Catch("listing request failed")
    /\ UNCHANGED <<script, argv, dpc, dexit, adapter, dirExists, mkdirs, files,
                   requests, html, content, chapterLinks, i, chapterHtml,
                   chapterContent, attempts, waited, fnVars>>

\* fs.writeFileSync(index.html, html)
WriteIndex ==
    /\ pc = "writeIndex"
    /\ \E written \in BOOLEAN :
           IF written
           THEN /\ files' = files \cup {IndexFile}
                /\ Goto("extractMain")
                /\ UNCHANGED exitCode
           ELSE /\ Catch("write threw")
                /\ UNCHANGED files
    /\ UNCHANGED <<script, argv, dpc, dexit, adapter, dirExists, mkdirs, requests,
                   inflight, html, content, chapterLinks, i, chapterHtml,
                   chapterContent, attempts, waited, fnVars>>

\* extractTitle(html), which only feeds the log, and extractNovelContent(html)
ExtractMain ==
    /\ pc = "extractMain"
    /\ content' = extractNovelContent(adapter, html)
    /\ Goto("writeContent")
    /\ UNCHANGED <<script, argv, dpc, dexit, adapter, exitCode, dirExists, mkdirs,
                   files, requests, inflight, html, chapterLinks, i, chapterHtml,
                   chapterContent, attempts, waited, fnVars>>

\* if (content) fs.writeFileSync(content.txt, content) else a diagnostic
WriteContent ==
    /\ pc = "writeContent"
    /\ IF content # <<>>
       THEN \E written \in BOOLEAN :
                IF written
                THEN /\ files' = files \cup {ContentFile}
                     /\ Goto("discover")
                     /\ UNCHANGED exitCode
                ELSE /\ Catch("write threw")
                     /\ UNCHANGED files
       ELSE /\ Goto("discover")
            /\ UNCHANGED <<files, exitCode>>
    /\ UNCHANGED <<script, argv, dpc, dexit, adapter, dirExists, mkdirs, requests,
                   inflight, html, content, chapterLinks, i, chapterHtml,
                   chapterContent, attempts, waited, fnVars>>

\* chapterLinks = extractChapterLinks(html); the loop starts with i = 0
DiscoverChapters ==
    /\ pc = "discover"
    /\ chapterLinks' = extractChapterLinks(adapter, html)
    /\ i' = 0
    /\ Goto("loop")
    /\ UNCHANGED <<script, argv, dpc, dexit, adapter, exitCode, dirExists, mkdirs,
                   files, requests, inflight, html, content, chapterHtml,
                   chapterContent, attempts, waited, fnVars>>

\* A faulty variant of LoopTest: fetchUrl is called and not awaited, the
\* loop goes straight on to the next chapter.
LoopTestNoAwait ==
    /\ pc = "loop"
    /\ IF i < LoopBound(adapter, chapterLinks)
       THEN /\ requests' = Append(requests, chapterLinks[i + 1])
            /\ inflight' = inflight \cup {chapterLinks[i + 1]}
            /\ i' = i + 1
            /\ Goto("loop")
       ELSE /\ Goto("report")
            /\ UNCHANGED <<requests, inflight, i>>
    /\ UNCHANGED <<script, argv, dpc, dexit, adapter, exitCode, dirExists, mkdirs,
                   files, html, content, chapterLinks, chapterHtml,
                   chapterContent, attempts, waited, fnVars>>

\* The loop test; inside the bound, fetchUrl(chapterLinks[i]) is called.
LoopTest ==
    /\ pc = "loop"
    /\ IF i < LoopBound(adapter, chapterLinks)
       THEN /\ requests' = Append(requests, chapterLinks[i + 1])
            /\ inflight' = inflight \cup {chapterLinks[i + 1]}
            /\ Goto("awaitChapter")
       ELSE /\ Goto("report")
            /\ UNCHANGED <<requests, inflight>>
    /\ UNCHANGED <<script, argv, dpc, dexit, adapter, exitCode, dirExists, mkdirs,
                   files, html, content, chapterLinks, i, chapterHtml,
                   chapterContent, attempts, waited, fnVars>>

\* The chapter request resolves with a page.
ChapterResponse ==
    /\ pc = "awaitChapter"
    /\ \E page \in ChapterPages(adapter) : chapterHtml' = page
    /\ inflight' = {}
    /\ waited' = 0
    /\ Goto("extract")
    /\ UNCHANGED <<script, argv, dpc, dexit, adapter, exitCode, dirExists, mkdirs,
                   files, requests, html, content, chapterLinks, i,
                   chapterContent, attempts, fnVars>>

\* A faulty variant of ChapterError: the failure leaves the loop and ends
\* the run.
ChapterErrorEndsRun ==
    /\ pc = "awaitChapter"
    /\ inflight' = {}
    /\ waited' = 0
    /\ Catch("chapter request failed")
    /\ UNCHANGED <<script, argv, dpc, dexit, adapter, dirExists, mkdirs, files,
                   requests, html, content, chapterLinks, i, chapterHtml,
                   chapterContent, attempts, fnVars>>

\* The chapter request rejects: the catch inside the loop reports it and
\* the loop goes on with i++.
ChapterError ==
    /\ pc = "awaitChapter"
    /\ inflight' = {}
    /\ waited' = 0
    /\ attempts' = Append(attempts, Attempt(FALSE, FALSE, "none"))
    /\ i' = i + 1
    /\ Goto("loop")
    /\ UNCHANGED <<script, argv, dpc, dexit, adapter, exitCode, dirExists, mkdirs,
                   files, requests, html, content, chapterLinks, chapterHtml,
                   chapterContent, fnVars>>

\* extractTitle(chapterHtml), for the log, and extractNovelContent(chapterHtml)
ExtractChapter ==
    /\ pc = "extract"
    /\ chapterContent' = extractNovelContent(adapter, chapterHtml)
    /\ Goto("persist")
    /\ UNCHANGED <<script, argv, dpc, dexit, adapter, exitCode, dirExists, mkdirs,
                   files, requests, inflight, html, content, chapterLinks, i,
                   chapterHtml, attempts, waited, fnVars>>

\* A faulty variant of PersistChapter: the file is named by the loop index
\* i, which starts at 0, and not by i + 1.
PersistChapterZeroBased ==
    /\ pc = "persist"
    /\ IF chapterContent # <<>>
       THEN \E written \in BOOLEAN :
                IF written
                THEN /\ files' = files \cup {ChapterFileName(i)}
                     /\ attempts' = Append(attempts, Attempt(TRUE, TRUE, "done"))
                     /\ Goto("sleep")
                     /\ UNCHANGED <<i, chapterHtml, chapterContent>>
                ELSE /\ attempts' = Append(attempts, Attempt(TRUE, TRUE, "threw"))
                     /\ i' = i + 1
                     /\ chapterHtml' = <<>>
                     /\ chapterContent' = <<>>
                     /\ Goto("loop")
                     /\ UNCHANGED files
       ELSE /\ attempts' = Append(attempts, Attempt(TRUE, FALSE, "none"))
            /\ Goto("sleep")
            /\ UNCHANGED <<files, i, chapterHtml, chapterContent>>
    /\ UNCHANGED <<script, argv, dpc, dexit, adapter, exitCode, dirExists, mkdirs,
                   requests, inflight, html, content, chapterLinks, waited, fnVars>>

\* if (chapterContent) writeFileSync(chapter_NNN.txt) else a diagnostic.  A
\* throwing write lands in the catch inside the loop, past the sleep.  The
\* iteration's constants chapterHtml and chapterContent end with it.
PersistChapter ==
    /\ pc = "persist"
    /\ IF chapterContent # <<>>
       THEN \E written \in BOOLEAN :
                IF written
                THEN /\ files' = files \cup {ChapterFileName(i + 1)}
                     /\ attempts' = Append(attempts, Attempt(TRUE, TRUE, "done"))
                     /\ Goto("sleep")
                     /\ UNCHANGED <<i, chapterHtml, chapterContent>>
                ELSE /\ attempts' = Append(attempts, Attempt(TRUE, TRUE, "threw"))
                     /\ i' = i + 1
                     /\ chapterHtml' = <<>>
                     /\ chapterContent' = <<>>
                     /\ Goto("loop")
                     /\ UNCHANGED files
       ELSE /\ attempts' = Append(attempts, Attempt(TRUE, FALSE, "none"))
            /\ Goto("sleep")
            /\ UNCHANGED <<files, i, chapterHtml, chapterContent>>
    /\ UNCHANGED <<script, argv, dpc, dexit, adapter, exitCode, dirExists, mkdirs,
                   requests, inflight, html, content, chapterLinks, waited, fnVars>>

\* A faulty variant of Sleep: sleep(1000) is called and not awaited.
SleepNotAwaited ==
    /\ pc = "sleep"
    /\ i' = i + 1
    /\ chapterHtml' = <<>>
    /\ chapterContent' = <<>>
    /\ Goto("loop")
    /\ UNCHANGED <<script, argv, dpc, dexit, adapter, exitCode, dirExists, mkdirs,
                   files, requests, inflight, html, content, chapterLinks,
                   attempts, waited, fnVars>>

\* await sleep(1000), then i++
Sleep ==
    /\ pc = "sleep"
    /\ waited' = waited + DelayMs
    /\ i' = i + 1
    /\ chapterHtml' = <<>>
    /\ chapterContent' = <<>>
    /\ Goto("loop")
    /\ UNCHANGED <<script, argv, dpc, dexit, adapter, exitCode, dirExists, mkdirs,
                   files, requests, inflight, html, content, chapterLinks,
                   attempts, fnVars>>

\* The summary: readdirSync and statSync may throw, which main() catches;
\* otherwise main() returns and the process ends with status 0.
Report ==
    /\ pc = "report"
    /\ \E listed \in BOOLEAN : IF listed THEN Exit(0) ELSE Catch("report threw")
    /\ UNCHANGED <<script, argv, dpc, dexit, adapter, dirExists, mkdirs, files,
                   requests, inflight, html, content, chapterLinks, i,
                   chapterHtml, chapterContent, attempts, waited, fnVars>>

(***************************************************************************)
(* main() of the dispatcher.                                               *)
(***************************************************************************)
adapterVars ==
    <<pc, exitCode, dirExists, mkdirs, files, requests, inflight, html, content,
      chapterLinks, i, chapterHtml, chapterContent, attempts, waited, visited>>

\* parseArguments() of scrape_novel.js
DispatcherParseArguments ==
    /\ dpc = "start"
    /\ IF Len(argv) = 0 THEN dpc' = "exit" /\ dexit' = 1
       ELSE IF \E k \in 1..Len(argv) : argv[k] \in {<<"--help">>, <<"-h">>}
            THEN dpc' = "exit" /\ dexit' = 0
            ELSE dpc' = "validate" /\ UNCHANGED dexit
    /\ UNCHANGED <<script, argv, adapter, adapterVars, fnVars>>

validateUrlAndGetScraper ==
    /\ dpc = "validate"
    /\ IF ~UrlParses(argv[1]) THEN dpc' = "exit" /\ dexit' = 1
       ELSE IF UrlProtocol(argv[1]) # "https:" THEN dpc' = "exit" /\ dexit' = 1
       ELSE IF SUPPORTED_SCRAPERS(UrlHostname(argv[1])) = "undefined"
            THEN dpc' = "exit" /\ dexit' = 1
            ELSE dpc' = "spawn" /\ UNCHANGED dexit
    /\ UNCHANGED <<script, argv, adapter, adapterVars, fnVars>>

\* runScraper(scraperScript, url): the child runs the adapter script with
\* the URL as its only argument.  A scraperScript that is no script of
\* this repository, or a child that cannot be started, ends the
\* dispatcher with status 1 and no adapter has run.
runScraper ==
    /\ dpc = "spawn"
    /\ LET scraperScript == SUPPORTED_SCRAPERS(UrlHostname(argv[1]))
       IN  \E started \in BOOLEAN :
               IF started /\ scraperScript \in {"ncode", "kakuyomu"}
               THEN /\ adapter' = scraperScript
                    /\ argv' = <<argv[1]>>
                    /\ pc' = "start"
                    /\ visited' = {"start"}
                    /\ dpc' = "wait"
                    /\ UNCHANGED dexit
               ELSE /\ dpc' = "exit"
                    /\ dexit' = 1
                    /\ UNCHANGED <<adapter, argv, pc, visited>>
    /\ UNCHANGED <<script, exitCode, dirExists, mkdirs, files, requests, inflight,
                   html, content, chapterLinks, i, chapterHtml, chapterContent,
                   attempts, waited, fnVars>>

\* child.on('close'): status 0 resolves, any other status rejects and
\* main() exits with 1.
ChildClose ==
    /\ dpc = "wait"
    /\ pc = "exit"
    /\ dpc' = "exit"
    /\ dexit' = IF exitCode = 0 THEN 0 ELSE 1
    /\ UNCHANGED <<script, argv, adapter, adapterVars, fnVars>>

Next ==
    \/ ParseArguments
    \/ validateUrl
    \/ ensureOutputDir
    \/ FetchListing
    \/ ListingResponse
    \/ ListingError
    \/ WriteIndex
    \/ ExtractMain
    \/ WriteContent
    \/ DiscoverChapters
    \/ LoopTest
    \/ ChapterResponse
    \/ ChapterError
    \/ ExtractChapter
    \/ PersistChapter
    \/ Sleep
    \/ Report
    \/ DispatcherParseArguments
    \/ validateUrlAndGetScraper
    \/ runScraper
    \/ ChildClose

Spec == Init /\ [][Next]_vars

\* Every step that can be taken is taken in the end: the program runs on,
\* and every request issued completes or fails.
FairSpec == Spec /\ WF_vars(Next)

(***************************************************************************)
(* The extraction functions applied on their own: the input is chosen in   *)
(* the initial state, one step applies the function (pc goes from "call"   *)
(* to "return").                                                           *)
(***************************************************************************)
\* The longest page given to extractNovelContent of the ncode adapter, to
\* extractTitle, and the most anchors given to extractChapterLinks.
MaxBodyLen == 7
MaxTitleLen == 4
MaxAnchors == 4

SeqsUpTo(set, n) == UNION {[1..k -> set] : k \in 0..n}

RECURSIVE Concat(_)
Concat(parts) ==
    IF parts = <<>> THEN <<>> ELSE parts[1] \o Concat(Substring(parts, 2))

NcodeBodyAlphabet == {MarkerTag, DivTag, EndDivTag, "inner", "more"}
NcodeBodyInputs == SeqsUpTo(NcodeBodyAlphabet, MaxBodyLen)

TitleAlphabet ==
    {TitleTag, EndTitleTag, WorkTitleTag, EndWorkTitleTag, "Work", Space}
TitleInputs == SeqsUpTo(TitleAlphabet, MaxTitleLen)

\* What a listing page is made of: anchors to episodes 9, 10, 2 and 1, an
\* anchor that is no chapter link, and plain text; for the ncode adapter
\* also an anchor that gives a chapter's absolute URL.
KakuyomuPieces ==
    {KakuyomuAnchor(n) : n \in 1..4}
    \cup {<<HrefOpen, WorksPath, "1", HrefClose>>, <<"text">>}
NcodePieces ==
    {NcodeAnchor(n) : n \in 1..3}
    \cup {<<HrefOpen, Https, NcodeHost, NcodeWorkPath, "9", "/", HrefClose>>,
          <<HrefOpen, NcodeWorkPath, HrefClose>>, <<"text">>}
KakuyomuLinkInputs == {Concat(ps) : ps \in SeqsUpTo(KakuyomuPieces, MaxAnchors)}
NcodeLinkInputs == {Concat(ps) : ps \in SeqsUpTo(NcodePieces, MaxAnchors)}

IdleRun ==
    /\ script = "none"
    /\ argv = <<>>
    /\ dpc = "none"
    /\ dexit = 0
    /\ adapter = "none"
    /\ pc = "call"
    /\ exitCode = 0
    /\ dirExists = FALSE
    /\ mkdirs = 0
    /\ files = {}
    /\ requests = <<>>
    /\ inflight = {}
    /\ html = <<>>
    /\ content = <<>>
    /\ chapterLinks = <<>>
    /\ i = 0
    /\ chapterHtml = <<>>
    /\ chapterContent = <<>>
    /\ attempts = <<>>
    /\ waited = 0
    /\ visited = {}
    /\ out = <<>>

Return(result) ==
    /\ pc = "call"
    /\ out' = result
    /\ pc' = "return"
    /\ UNCHANGED <<script, argv, dpc, dexit, adapter, exitCode, dirExists, mkdirs,
                   files, requests, inflight, html, content, chapterLinks, i,
                   chapterHtml, chapterContent, attempts, waited, visited, fn, arg>>

\* extractNovelContent of the ncode adapter on any page.
InitNcodeBody ==
    /\ IdleRun
    /\ fn = "extractNovelContentNcode"
    /\ arg \in NcodeBodyInputs
CallExtractNovelContentNcode ==
    /\ fn = "extractNovelContentNcode"
    /\ Return(extractNovelContentNcode(arg))
SpecNcodeBody == InitNcodeBody /\ [][CallExtractNovelContentNcode]_vars

\* extractTitle of either adapter on any page.
InitTitle ==
    /\ IdleRun
    /\ fn \in {"extractTitleNcode", "extractTitleKakuyomu"}
    /\ arg \in TitleInputs
CallExtractTitleNcode ==
    /\ fn = "extractTitleNcode"
    /\ Return(extractTitleNcode(arg))
CallExtractTitleKakuyomu ==
    /\ fn = "extractTitleKakuyomu"
    /\ Return(extractTitleKakuyomu(arg))
NextTitle == CallExtractTitleNcode \/ CallExtractTitleKakuyomu
SpecTitle == InitTitle /\ [][NextTitle]_vars

\* extractChapterLinks of either adapter on any listing page.
InitLinks ==
    /\ IdleRun
    /\ \/ fn = "extractChapterLinksNcode" /\ arg \in NcodeLinkInputs
       \/ fn = "extractChapterLinksKakuyomu" /\ arg \in KakuyomuLinkInputs
CallExtractChapterLinksNcode ==
    /\ fn = "extractChapterLinksNcode"
    /\ Return(extractChapterLinksNcode(arg))
CallExtractChapterLinksKakuyomu ==
    /\ fn = "extractChapterLinksKakuyomu"
    /\ Return(extractChapterLinksKakuyomu(arg))
NextLinks == CallExtractChapterLinksNcode \/ CallExtractChapterLinksKakuyomu
SpecLinks == InitLinks /\ [][NextLinks]_vars

\* decodeHtmlEntities on any text of entities and entity fragments, and
\* then on its own result.
MaxEntityLen == 3
EntityAlphabet == {"&", "nbsp;", "amp;", "lt;", "gt;", "quot;", "#39;", "a"}
EntityInputs == SeqsUpTo(EntityAlphabet, MaxEntityLen)
InitDecode ==
    /\ IdleRun
    /\ fn = "decodeHtmlEntities"
    /\ arg \in EntityInputs
CallDecodeHtmlEntities ==
    /\ fn = "decodeHtmlEntities"
    /\ Return(decodeHtmlEntities(arg))
CallDecodeHtmlEntitiesAgain ==
    /\ fn = "decodeHtmlEntities"
    /\ pc = "return"
    /\ arg' = out
    /\ out' = decodeHtmlEntities(out)
    /\ pc' = "again"
    /\ UNCHANGED <<script, argv, dpc, dexit, adapter, exitCode, dirExists, mkdirs,
                   files, requests, inflight, html, content, chapterLinks, i,
                   chapterHtml, chapterContent, attempts, waited, visited, fn>>
NextDecode == CallDecodeHtmlEntities \/ CallDecodeHtmlEntitiesAgain
SpecDecode == InitDecode /\ [][NextDecode]_vars

(***************************************************************************)
(* Properties.                                                             *)
(***************************************************************************)
\* The chapter requests issued so far: all requests but the listing's.
ChaptersRequested == Substring(requests, 2)

\* The chapter of the iteration under way is fetched and not yet settled
\* in the history.
InIteration == pc \in {"awaitChapter", "extract", "persist"}

\* The file name of chapter n below ten, written out.
Digit(n) == <<"0", "1", "2", "3", "4", "5", "6", "7", "8", "9">>[n + 1]
Chapter00(n) == <<"chapter_", "0", "0", Digit(n), ".txt">>

\* C1: in the download loop a failed request, an empty extraction or an
\* exception while chapter i is processed never ends the run and never
\* skips a chapter: the chapters requested are the first chapters of the
\* list, each once and in the order of the list, the history holds one
\* entry per ordinal, the iteration under way is the one after the last
\* entry, and once the loop is left every chapter inside the bound has its
\* entry.
C1_FailureIsolation ==
    "loop" \in visited =>
        /\ \A n \in 1..Len(attempts) : attempts[n].ordinal = n
        /\ ChaptersRequested = SubSeq(chapterLinks, 1, Len(ChaptersRequested))
        /\ Len(ChaptersRequested) = Len(attempts) + (IF InIteration THEN 1 ELSE 0)
        /\ Len(ChaptersRequested) <= LoopBound(adapter, chapterLinks)
        /\ InIteration \/ pc = "loop" => i = Len(attempts)
        /\ pc = "sleep" => i + 1 = Len(attempts)
        /\ pc \in {"report", "exit"} =>
               Len(attempts) = LoopBound(adapter, chapterLinks)

\* A run that ends with status 0 although chapter 1's request failed,
\* chapter 2 had no body and chapter 3's write threw, and that wrote
\* chapter 4.
C1_Witness ==
    /\ pc = "exit"
    /\ exitCode = 0
    /\ Len(attempts) >= 4
    /\ ~attempts[1].fetched
    /\ attempts[2].fetched /\ ~attempts[2].body
    /\ attempts[3].wrote = "threw"
    /\ attempts[4].wrote = "done"
    /\ Chapter00(4) \in files

\* What the run has written but index.html and content.txt.
ChapterFiles == files \ {IndexFile, ContentFile}

\* C3 as stated: chapter_NNN.txt is written if and only if NNN is the
\* ordinal of a chapter inside the bound whose request succeeded and whose
\* body is not empty.
C3_AsStated ==
    pc = "exit" /\ "loop" \in visited =>
        ChapterFiles =
            {Chapter00(n) : n \in {m \in 1..Len(attempts) :
                                      attempts[m].fetched /\ attempts[m].body}}

\* C3, amended: chapter_NNN.txt is written if and only if NNN is the
\* ordinal of a chapter inside the bound whose request succeeded, whose
\* body is not empty and whose write did not throw; the bound is all
\* links in the ncode adapter and at most 3 in the kakuyomu adapter.  With
\* 5 links, the cap of 3, a body on the listing page and no failure the
\* files are index.html, content.txt and chapters 001 to 003; when only
\* chapter 2's request fails the chapter files are 001 and 003.
C3_NamedByOrdinal ==
    /\ \A n \in 1..Len(attempts) :
           Chapter00(n) \in files <=>
               attempts[n].fetched /\ attempts[n].body /\ attempts[n].wrote # "threw"
    /\ ChapterFiles \subseteq {Chapter00(n) : n \in 1..Len(attempts)}
    /\ "loop" \in visited =>
           Len(attempts) <= IF adapter = "kakuyomu"
                            THEN Min(3, Len(chapterLinks))
                            ELSE Len(chapterLinks)
    /\ (/\ pc = "exit" /\ exitCode = 0
        /\ adapter = "kakuyomu" /\ Len(chapterLinks) = 5
        /\ content # <<>>
        /\ \A n \in 1..Len(attempts) : attempts[n].wrote = "done")
       => /\ files = {IndexFile, ContentFile, <<"chapter_", "0", "0", "1", ".txt">>,
                      <<"chapter_", "0", "0", "2", ".txt">>,
                      <<"chapter_", "0", "0", "3", ".txt">>}
          /\ Cardinality(files) = 5
    /\ (/\ pc = "exit" /\ exitCode = 0
        /\ adapter = "kakuyomu" /\ Len(chapterLinks) = 5
        /\ \A n \in 1..Len(attempts) :
               IF n = 2 THEN ~attempts[n].fetched ELSE attempts[n].wrote = "done")
       => ChapterFiles = {<<"chapter_", "0", "0", "1", ".txt">>,
                          <<"chapter_", "0", "0", "3", ".txt">>}

\* A capped run over 5 links in which only chapter 2's request failed.
C3_Witness ==
    /\ pc = "exit" /\ exitCode = 0
    /\ adapter = "kakuyomu" /\ Len(chapterLinks) = 5
    /\ Len(attempts) = 3
    /\ attempts[1].wrote = "done"
    /\ ~attempts[2].fetched
    /\ attempts[3].wrote = "done"
    /\ ChapterFiles = {Chapter00(1), Chapter00(3)}

\* The URL argument does not pass validation: it does not parse, its
\* scheme is not https, or its host is not a domain of the script started
\* (both domains for the dispatcher, its own for an adapter).
RegisteredDomains ==
    IF script = "dispatcher" THEN {NcodeHost, KakuyomuHost}
    ELSE {ALLOWED_DOMAIN(script)}
InvalidUrl(u) ==
    \/ Len(u) < 2
    \/ u[1] # Https
    \/ UrlHostname(u) \notin RegisteredDomains

\* The command line asks for the help text, which parseArguments answers
\* before any URL is looked at.
HelpRequested == \E k \in 1..Len(argv) : argv[k] \in {<<"--help">>, <<"-h">>}

\* C4: when the URL argument is invalid (and the command line does not ask
\* for the help text, so that the URL reaches validation), the fetcher is
\* never called, no directory is made, no file is written, no adapter
\* step past validation is taken, and the process that ends has a status
\* other than 0.
C4_ValidationGate ==
    (script # "none" /\ Len(argv) >= 1 /\ ~HelpRequested /\ InvalidUrl(argv[1])) =>
        /\ requests = <<>>
        /\ inflight = {}
        /\ mkdirs = 0
        /\ files = {}
        /\ visited \subseteq {"none", "start", "validate", "exit"}
        /\ pc = "exit" => exitCode # 0
        /\ dpc = "exit" => dexit # 0

\* An adapter started on an http URL of its own domain has exited, and the
\* dispatcher started on a foreign host has exited.
C4_Witness ==
    /\ Len(argv) = 1
    /\ \/ /\ script = "kakuyomu"
          /\ argv[1] = <<Http, KakuyomuHost, WorksPath, "1">>
          /\ pc = "exit"
       \/ /\ script = "dispatcher"
          /\ argv[1] = <<Https, "example.com", WorksPath, "1">>
          /\ dpc = "exit"
    /\ exitCode + dexit = 1

\* The listing request succeeded (its page is about to be written or was),
\* or failed.
ListingFetched == "writeIndex" \in visited
ListingFailed == "listing request failed" \in visited

\* A file-system call outside the try of the loop threw: the write of
\* index.html or content.txt, or the directory listing of the summary.
ThrewOutsideLoop == visited \cap {"write threw", "report threw"} # {}

\* C5 as stated: once the listing request has succeeded, the run ends with
\* status 0.
C5_AsStated == (pc = "exit" /\ ListingFetched) => exitCode = 0

\* C5, the part that holds in every state: a run whose listing request
\* succeeded ends with status 0 exactly when no file-system call outside
\* the loop's try threw, and then it went through the summary; a run whose
\* listing request failed has ended with status 1, has taken no step of
\* the extraction or of the download loop and has written no file.
C5_Outcome ==
    /\ (pc = "exit" /\ ListingFetched) =>
           /\ exitCode = 0 <=> ~ThrewOutsideLoop
           /\ exitCode = 0 => "report" \in visited
    /\ ListingFailed =>
           /\ pc = "exit" /\ exitCode = 1
           /\ visited \cap {"writeIndex", "extractMain", "writeContent", "discover",
                            "loop", "awaitChapter", "extract", "persist", "sleep",
                            "report"} = {}
           /\ files = {}

\* The number of steps a run can still take at most once the listing page
\* was fetched: five per chapter still to download, and the steps before
\* and after the loop.
StepsLeft ==
    LET perChapter == 5 * (LoopBound(adapter, chapterLinks) - i)
    IN  CASE pc = "writeIndex" -> 5 * MaxLinks + 6
          [] pc = "extractMain" -> 5 * MaxLinks + 5
          [] pc = "writeContent" -> 5 * MaxLinks + 4
          [] pc = "discover" -> 5 * MaxLinks + 3
          [] pc = "loop" -> perChapter + 2
          [] pc = "awaitChapter" -> perChapter + 1
          [] pc = "extract" -> perChapter
          [] pc = "persist" -> perChapter - 1
          [] pc = "sleep" -> perChapter - 2
          [] pc = "report" -> 1
          [] OTHER -> 0

\* A run whose listing page was fetched is never blocked before its exit,
\* and its exit status and the steps it took agree with C5_Outcome.
\* The steps that call a pure extractor (extractMain, discover, extract)
\* have no condition but the position of the run.
C5_NeverBlocked ==
    /\ C5_Outcome
    /\ (ListingFetched /\ pc # "exit") =>
           /\ StepsLeft > 0
           /\ CASE pc = "writeIndex" -> ENABLED WriteIndex
                [] pc = "writeContent" -> ENABLED WriteContent
                [] pc = "loop" -> ENABLED LoopTest
                [] pc = "awaitChapter" -> ENABLED ChapterError
                [] pc = "persist" -> ENABLED PersistChapter
                [] pc = "sleep" -> ENABLED Sleep
                [] pc = "report" -> ENABLED Report
                [] OTHER -> pc \in {"extractMain", "discover", "extract"}

\* C5, amended: once the listing request has succeeded the run ends,
\* whatever chapters fail and also with no chapter link (it is never
\* blocked and every step brings the exit nearer), and it ends with status
\* 0 through the summary unless a file-system call outside the loop's try
\* throws, and then with status 1; after a failed listing request it ends
\* with status 1, with no extraction, no download and no file.
C5_RunOutcome ==
    /\ []C5_NeverBlocked
    /\ [][(ListingFetched /\ pc # "exit") => StepsLeft' < StepsLeft]_vars

\* A run that ended with status 0 over an empty link set, and one in
\* which every chapter failed, are both reached; the witness is the
\* second: three chapters, none written, status 0.
C5_Witness ==
    /\ pc = "exit" /\ exitCode = 0
    /\ Len(attempts) = 3
    /\ \A n \in 1..3 : attempts[n].wrote # "done"
    /\ ~attempts[1].fetched
    /\ ChapterFiles = {}

\* C6: at most one request is in flight, and while one is the program
\* waits for it; a chapter request is in flight only when the listing page
\* was fetched and index.html written, every earlier chapter has its entry
\* in the history (its request settled, its body extracted, its write
\* done or failed) and nothing of an earlier iteration is pending.
C6_Sequential ==
    /\ Cardinality(inflight) <= 1
    /\ inflight # {} => pc \in {"awaitListing", "awaitChapter"}
    /\ pc = "awaitListing" => requests = <<UrlHref(argv[1])>> /\ files = {}
    /\ ChaptersRequested # <<>> =>
           /\ IndexFile \in files
           /\ html # <<>>
           /\ Len(ChaptersRequested) <= Len(attempts) + 1
    /\ pc = "awaitChapter" =>
           /\ inflight = {chapterLinks[i + 1]}
           /\ Len(attempts) = i
           /\ chapterHtml = <<>> /\ chapterContent = <<>>
           /\ \A n \in 1..i : attempts[n].wrote = "done" <=> Chapter00(n) \in files

\* The request of chapter 3 is in flight after chapters 1 and 2 were
\* written.
C6_Witness ==
    /\ pc = "awaitChapter"
    /\ i = 2
    /\ Cardinality(inflight) = 1
    /\ {Chapter00(1), Chapter00(2)} \subseteq files

\* C7 as stated: a chapter request after the first is issued only when the
\* delay of 1000 ms was slept since the chapter request before it settled.
C7_AsStated == (pc = "awaitChapter" /\ i >= 1) => waited >= 1000

\* C7, amended: when the iteration before ran to its end (its request
\* succeeded and its write, if any, did not throw) the delay of 1000 ms was
\* slept before the next chapter request; when its request failed or its
\* write threw, the next chapter request is issued with no delay.
C7_DelayOnSuccessPath ==
    (pc = "awaitChapter" /\ i >= 1) =>
        IF attempts[i].fetched /\ attempts[i].wrote # "threw"
        THEN waited >= 1000
        ELSE waited = 0

\* Chapter 2 is requested after chapter 1, whose body was empty, and the
\* delay was slept.
C7_Witness ==
    /\ pc = "awaitChapter"
    /\ i = 1
    /\ attempts[1].fetched /\ ~attempts[1].body
    /\ waited = 1000

\* The first position of a tag of the set in a page, 0 when there is none.
FirstTag(page, tags) ==
    IF \E a \in 1..Len(page) : page[a] \in tags
    THEN CHOOSE a \in 1..Len(page) :
             /\ page[a] \in tags
             /\ \A b \in 1..(a - 1) : page[b] \notin tags
    ELSE 0

\* The first opening tag of the wrapper that has a closing div tag after
\* it, with the first such closing tag: the wrapper element the pattern
\* <div class="...">...</div> selects.
WrapperElement(page, tag) ==
    LET opens == {a \in 1..Len(page) :
                     /\ page[a] = tag
                     /\ \E b \in (a + 1)..Len(page) : page[b] = EndDivTag}
    IN  IF opens = {}
        THEN <<0, 0>>
        ELSE LET a == CHOOSE x \in opens : \A y \in opens : x <= y
                 b == CHOOSE x \in (a + 1)..Len(page) :
                          /\ page[x] = EndDivTag
                          /\ \A y \in (a + 1)..(x - 1) : page[y] # EndDivTag
             IN  <<a, b>>

\* The inner text of the paragraph elements of a page from a position on,
\* in document order.
RECURSIVE ParagraphTexts(_, _)
ParagraphTexts(page, from) ==
    LET opens == {a \in from..Len(page) :
                     /\ page[a] = ParagraphTag
                     /\ \E b \in (a + 1)..Len(page) : page[b] = EndParagraphTag}
    IN  IF opens = {}
        THEN <<>>
        ELSE LET a == CHOOSE x \in opens : \A y \in opens : x <= y
                 b == CHOOSE x \in (a + 1)..Len(page) :
                          /\ page[x] = EndParagraphTag
                          /\ \A y \in (a + 1)..(x - 1) : page[y] # EndParagraphTag
             IN  <<SubSeq(page, a + 1, b - 1)>> \o ParagraphTexts(page, b + 1)

\* The body the strategy chain of the kakuyomu adapter is to give: the
\* text of the episode-body wrapper when the page has one, otherwise that
\* of the work-episode wrapper, otherwise the paragraphs joined by line
\* breaks, otherwise the empty string.
ExpectedBody(page) ==
    LET episode == WrapperElement(page, EpisodeBodyTag)
        work == WrapperElement(page, WorkEpisodeTag)
        paragraphs == ParagraphTexts(page, 1)
    IN  IF episode[1] # 0
        THEN CleanContent(SubSeq(page, episode[1] + 1, episode[2] - 1))
        ELSE IF work[1] # 0
             THEN CleanContent(SubSeq(page, work[1] + 1, work[2] - 1))
             ELSE IF paragraphs # <<>>
                  THEN CleanContent(Join(paragraphs, <<Newline>>))
                  ELSE <<>>

\* C8: the kakuyomu adapter takes the body of the first strategy that
\* matches (episode-body wrapper, work-episode wrapper, all paragraphs in
\* document order joined by line breaks) and the empty string when none
\* does; the caller never writes an empty body: a chapter with an empty
\* body gets no file and no write, and content.txt exists only with a
\* body that is not empty.
C8_StrategyChain ==
    adapter = "kakuyomu" =>
        /\ pc = "persist" => chapterContent = ExpectedBody(chapterHtml)
        /\ pc \in {"writeContent", "discover"} => content = ExpectedBody(html)
        /\ pc = "sleep" =>
               /\ Chapter00(i + 1) \in files => chapterContent # <<>>
               /\ chapterContent = <<>> => attempts[i + 1].wrote = "none"
        /\ \A n \in 1..Len(attempts) :
               (attempts[n].fetched /\ ~attempts[n].body) =>
                   /\ attempts[n].wrote = "none"
                   /\ Chapter00(n) \notin files
        /\ ContentFile \in files => content # <<>>

\* A chapter page that has paragraphs, a work-episode wrapper and an
\* episode-body wrapper, in this order: the body is the text of the
\* episode-body wrapper.
C8_Witness ==
    /\ adapter = "kakuyomu"
    /\ pc = "persist"
    /\ FirstTag(chapterHtml, {ParagraphTag}) # 0
    /\ FirstTag(chapterHtml, {ParagraphTag}) < FirstTag(chapterHtml, {WorkEpisodeTag})
    /\ FirstTag(chapterHtml, {WorkEpisodeTag}) < FirstTag(chapterHtml, {EpisodeBodyTag})
    /\ chapterContent # <<>>
    /\ chapterContent = ExpectedBody(chapterHtml)

\* The targets of the anchors of a listing page.
AnchorTargets(page) ==
    {SubSeq(page, p[1] + 1, p[2] - 1) :
        p \in {q \in (1..Len(page)) \X (1..Len(page)) :
                  /\ q[1] < q[2]
                  /\ page[q[1]] = HrefOpen
                  /\ page[q[2]] = HrefClose
                  /\ \A k \in (q[1] + 1)..(q[2] - 1) :
                         page[k] \notin {HrefOpen, HrefClose}}}

\* The chapter paths of the two sites, and the absolute URL of a target.
EpisodeSet == {EpisodeNumbers[n] : n \in 1..Len(EpisodeNumbers)}
KakuyomuChapterTargets == {<<WorksPath, "1", EpisodesPath>> \o e : e \in EpisodeSet}
NcodeChapterTargets ==
    {<<NcodeWorkPath>> \o e \o <<"/">> : e \in EpisodeSet}
    \cup {<<Https, NcodeHost, NcodeWorkPath>> \o e \o <<"/">> : e \in EpisodeSet}
Resolved(host, target) ==
    IF target[1] = Https THEN target ELSE <<Https, host>> \o target

\* The resolved chapter links of the page a link extractor was called on.
ExpectedLinks ==
    IF fn = "extractChapterLinksKakuyomu"
    THEN {Resolved(KakuyomuHost, t) : t \in AnchorTargets(arg) \cap KakuyomuChapterTargets}
    ELSE {Resolved(NcodeHost, t) : t \in AnchorTargets(arg) \cap NcodeChapterTargets}

Episode9 == <<Https, KakuyomuHost, WorksPath, "1", EpisodesPath, "9">>
Episode10 == <<Https, KakuyomuHost, WorksPath, "1", EpisodesPath, "1", "0">>

\* C9: extractChapterLinks returns absolute URLs, each resolved chapter
\* link of the page exactly once, in ascending order of the URL strings
\* compared code unit by code unit: episode 10 comes before episode 9.
C9_LinksDedupedSorted ==
    pc = "return" =>
        /\ {out[k] : k \in 1..Len(out)} = ExpectedLinks
        /\ \A k \in 1..Len(out) : out[k][1] = Https
        /\ \A a, b \in 1..Len(out) : a # b => out[a] # out[b]
        /\ \A a, b \in 1..Len(out) : a < b => StringLess(out[a], out[b])
        /\ \A a, b \in 1..Len(out) :
               (out[a] = Episode10 /\ out[b] = Episode9) => a < b

\* A page with the anchor of episode 9 three times and then the anchor of
\* episode 10 gives two links, episode 10 first.
C9_Witness ==
    /\ pc = "return"
    /\ fn = "extractChapterLinksKakuyomu"
    /\ arg = KakuyomuAnchor(1) \o KakuyomuAnchor(1) \o KakuyomuAnchor(1)
                 \o KakuyomuAnchor(2)
    /\ out = <<Episode10, Episode9>>

\* C10 as stated: extractTitle never returns the empty string.
C10_TitleNeverEmpty == pc = "return" => out # <<>>

\* The position of the closing div tag that matches the marker at m: the
\* first one at which the counter (1 for the marker, plus one at every
\* later opening div tag, minus one at every closing div tag) is 0; 0 when
\* no closing tag does.
DivDepth(page, m, b) ==
    1 + Cardinality({k \in (m + 1)..b : page[k] \in DivOpenTags})
      - Cardinality({k \in (m + 1)..b : page[k] = EndDivTag})
MatchingClose(page, m) ==
    LET closes == {b \in (m + 1)..Len(page) : DivDepth(page, m, b) = 0}
    IN  IF closes = {} THEN 0
        ELSE CHOOSE b \in closes : \A c \in closes : b <= c

IsText(token) == token \notin FullTags

\* C2 as stated: when the marker element is closed by its matching closing
\* tag, extractNovelContent of the ncode adapter returns the text between
\* the marker and that tag, the text of nested div elements included and
\* no text after the matching tag; marker + <div>inner</div>more</div>
\* gives "innermore".
C2_BalancedScan ==
    pc = "return" =>
        LET m == FirstTag(arg, {MarkerTag})
            close == MatchingClose(arg, m)
        IN  /\ (m # 0 /\ close # 0) =>
                   out = SelectSeq(SubSeq(arg, m + 1, close - 1), IsText)
            /\ arg = <<MarkerTag, DivTag, "inner", EndDivTag, "more", EndDivTag>> =>
                   out = <<"inner", "more">>

\* C11 as stated: decodeHtmlEntities is idempotent: applied to its own
\* result it gives that result back.
C11_DecodeIdempotent == pc = "again" => out = arg

\* C12 as stated: every request of a run, the listing request and every
\* chapter request, goes to the https scheme and to the domain the
\* adapter allows, whatever the listing page holds.
C12_RequestsStayOnDomain ==
    \A k \in 1..Len(requests) :
        /\ RequestScheme(requests[k]) = Https
        /\ RequestHost(requests[k]) = <<ALLOWED_DOMAIN(adapter)>>

\* The part of C12 that holds: the listing request, and every request of
\* the kakuyomu adapter.
C12_KakuyomuAndListing ==
    /\ requests # <<>> =>
           /\ RequestScheme(requests[1]) = Https
           /\ RequestHost(requests[1]) = <<ALLOWED_DOMAIN(adapter)>>
    /\ adapter = "kakuyomu" => C12_RequestsStayOnDomain

====
